---------------------------- MODULE Spec2Model ----------------------------
(***************************************************************************)
(* A model of src/Attributes.cpp (Rcpp attributes): the exports generators *)
(* driven by compileAttributes, and the sourceCpp dynlib cache behind      *)
(* sourceCppContext.                                                       *)
(*                                                                         *)
(* Text is a sequence of pieces; a piece is a sequence of strings (a       *)
(* literal is one string, an identifier is spelled character by            *)
(* character). Appending to a stream is \o, std::string::find of the       *)
(* generator token looks for the token's piece.                            *)
(***************************************************************************)
EXTENDS Naturals, Sequences, FiniteSets, TLC

VARIABLES
    \* ---- compileAttributes ----
    fs,          \* the three target files: path -> [exists, text]
    includeDir,  \* whether inst/include exists
    pc,          \* position of the running compileAttributes request
    req,         \* its arguments: [files, includes]
    gens,        \* ExportsGenerators::generators_, in registration order
    prototypes,  \* the local vector prototypes
    idx,         \* loop index (files while writing, generators while committing)
    wrote,       \* ExportsGenerators::commit's local wrote
    result,      \* what the request returned or threw
    fsAtStart,   \* history: fs when the request started
    rerun,       \* history: the request repeats the previous, completed one
    failures,    \* the stream open failures so far
    phases,      \* history: the calls made on the generators by the running
                 \*          request, in order: <<generator, call, file index>>
    \* ---- sourceCppContext ----
    clock,       \* the wall clock (time_t)
    sources,     \* the source files: path -> [exists, mtime, content]
    buildDirs,   \* build directory -> [generated: [exists, mtime, text], dynlib]
    cache,       \* s_dynlibCache.entries_
    ctx,         \* history: the last call of sourceCppContext (arguments, what it
                 \*          saw and did, the context returned); once the environment
                 \*          has moved, only what the next call is compared with
    inserted,    \* history: the inserts into the cache, in order
    later        \* history: per build directory, how the last mtime update of
                 \*          its source, since the last call, moved it

exportsVars == <<fs, includeDir, pc, req, gens, prototypes, idx, wrote, result,
                 fsAtStart, rerun, failures, phases>>
contextVars == <<clock, sources, buildDirs, cache, ctx, inserted, later>>
vars == <<exportsVars, contextVars>>

-----------------------------------------------------------------------------
(* Bounds *)

NumFiles == 3       \* source files of the package
MaxFailures == 1    \* stream open failures in one behaviour
MaxTime == 1        \* the clock and the mtimes run over 0..MaxTime
MaxDirs == 2        \* build directories (SourceCppDynlib constructions)
SampleRange == 2    \* sample(100000, 1) draws from 1..SampleRange

-----------------------------------------------------------------------------
(* Text *)

L(s) == <<s>>
endl == <<"\n">>

\* std::string::find(token) != npos, over pieces
Contains(text, piece) == \E i \in 1..Len(text) : text[i] = piece

RECURSIVE Flatten(_)
Flatten(seqs) ==
    IF seqs = <<>> THEN <<>> ELSE Head(seqs) \o Flatten(Tail(seqs))

\* the pieces of items separated by sep (no trailing separator)
RECURSIVE Joined(_, _)
Joined(items, sep) ==
    IF items = <<>> THEN <<>>
    ELSE IF Len(items) = 1 THEN <<items[1]>>
    ELSE <<items[1], sep>> \o Joined(Tail(items), sep)

-----------------------------------------------------------------------------
(* The attribute model (AttributesParser.h: the parser's output) *)

kExportAttribute == "export"
kDependsAttribute == "depends"
kInterfacesAttribute == "interfaces"
kInterfaceR == "r"
kInterfaceCpp == "cpp"

Arg(type, name) == [type |-> type, name |-> name]
Fn(type, name, arguments) == [type |-> type, name |-> name, arguments |-> arguments]
NoFunction == Fn(<<>>, <<>>, <<>>)
Param(name) == [name |-> name]
Attr(name, params, function, roxygen) ==
    [name |-> name, params |-> params, function |-> function, roxygen |-> roxygen]

FunctionEmpty(function) == function.name = <<>>
renamedTo(function, name) == [function EXCEPT !.name = name]
hasInterface(attributes, iface) == iface \in attributes.interfaces

\* operator<<(std::ostream&, const Function&): "type name(type name, ...)"
FunctionText(function) ==
    <<function.type, L(" "), function.name, L("(")>>
    \o Joined([i \in 1..Len(function.arguments) |->
                 function.arguments[i].type \o L(" ") \o function.arguments[i].name],
              L(", "))
    \o <<L(")")>>

\* The source files of the package, as the parser returns them.

\* a.cpp: cpp and r interface; a documented export, an export renamed to a
\* hidden name
FileA ==
    [sourceFile |-> "a.cpp",
     interfaces |-> {kInterfaceR, kInterfaceCpp},
     prototypes |-> <<L("int f(int x, int y)"), L("double g(double v)")>>,
     attrs |-> <<
        Attr(kInterfacesAttribute, <<Param(<<"r">>), Param(<<"c","p","p">>)>>,
             NoFunction, <<>>),
        Attr(kExportAttribute, <<>>,
             Fn(L("int"), <<"f">>, <<Arg(L("int"), <<"x">>), Arg(L("int"), <<"y">>)>>),
             <<L("//' Adds"), L("//' @param x")>>),
        Attr(kExportAttribute, <<Param(<<".","g">>)>>,
             Fn(L("double"), <<"g">>, <<Arg(L("double"), <<"v">>)>>),
             <<>>) >>]

\* a.cpp once its interfaces attribute is deleted: the r interface only
FileAHostOnly ==
    [FileA EXCEPT !.interfaces = {kInterfaceR}, !.attrs = Tail(@)]

\* b.cpp: cpp interface only; a dependency, an export attribute that is not
\* on a function, and one hidden export
FileB ==
    [sourceFile |-> "b.cpp",
     interfaces |-> {kInterfaceCpp},
     prototypes |-> <<L("void h()")>>,
     attrs |-> <<
        Attr(kInterfacesAttribute, <<Param(<<"c","p","p">>)>>, NoFunction, <<>>),
        Attr(kDependsAttribute, <<Param(<<"B","H">>)>>, NoFunction, <<>>),
        Attr(kExportAttribute, <<>>, NoFunction, <<>>),
        Attr(kExportAttribute, <<Param(<<".","h">>)>>,
             Fn(L("void"), <<"h">>, <<>>), <<L("//' Hidden")>>) >>]

\* d.cpp: no interfaces attribute (the r interface); one export without arguments
FileD ==
    [sourceFile |-> "d.cpp",
     interfaces |-> {kInterfaceR},
     prototypes |-> <<L("int k()")>>,
     attrs |-> <<
        Attr(kExportAttribute, <<>>, Fn(L("int"), <<"k">>, <<>>), <<L("//' K")>>) >>]

\* c.cpp: no attributes at all
FileC ==
    [sourceFile |-> "c.cpp",
     interfaces |-> {kInterfaceR},
     prototypes |-> <<>>,
     attrs |-> <<>>]

\* e.cpp: cpp interface; an export whose name has a dot inside
FileE ==
    [sourceFile |-> "e.cpp",
     interfaces |-> {kInterfaceCpp},
     prototypes |-> <<L("int m(int n)")>>,
     attrs |-> <<
        Attr(kInterfacesAttribute, <<Param(<<"c","p","p">>)>>, NoFunction, <<>>),
        Attr(kExportAttribute, <<Param(<<"m",".","n">>)>>,
             Fn(L("int"), <<"m">>, <<Arg(L("int"), <<"n">>)>>), <<>>) >>]

\* what the i-th file of the package may be when a request reads it
Variants(i) ==
    CASE i = 1 -> {FileA, FileAHostOnly}
      [] i = 2 -> {FileB}
      [] i = 3 -> {FileC}
      [] i = 4 -> {FileD}
      [] OTHER -> {FileE}

\* the batches: of each of the first n files of the package, in order, one
\* variant or nothing
RECURSIVE Batches(_)
Batches(n) ==
    IF n = 0 THEN {<<>>}
    ELSE LET shorter == Batches(n - 1)
         IN  shorter \cup {Append(s, v) : s \in shorter, v \in Variants(n)}

IncludeChoices == {<<>>, <<L("#include <Rcpp.h>")>>}

Requests == [files : Batches(NumFiles), includes : IncludeChoices]

-----------------------------------------------------------------------------
(* Helpers of the generators *)

\* an exported-function test that takes every export attribute
isExportedFunction_AnyExport(attribute) ==
    attribute.name = kExportAttribute

isExportedFunction(attribute) ==
    attribute.name = kExportAttribute /\ ~FunctionEmpty(attribute.function)

exportedName(attribute) ==
    IF attribute.params # <<>> THEN attribute.params[1].name
    ELSE attribute.function.name

RECURSIVE generateCppModuleFunctions(_)
generateCppModuleFunctions(attrs) ==
    IF attrs = <<>> THEN <<>>
    ELSE (IF isExportedFunction(Head(attrs))
          THEN <<L("    Rcpp::function(\""), exportedName(Head(attrs)), L("\", &"),
                 Head(attrs).function.name, L(");"), endl>>
          ELSE <<>>)
         \o generateCppModuleFunctions(Tail(attrs))

generateCppModule(moduleName, attrs) ==
    <<L("RCPP_MODULE("), moduleName, L(") {"), endl>>
    \o generateCppModuleFunctions(attrs)
    \o <<L("}"), endl>>

\* a placeholder that leaves the argument names out
generateRoxygenPlaceholder_NoArguments(attribute) ==
    <<exportedName(attribute), L("<- function("), L(") {}"), endl>>

generateRoxygenPlaceholder(attribute) ==
    <<exportedName(attribute), L("<- function(")>>
    \o Joined([i \in 1..Len(attribute.function.arguments) |->
                 attribute.function.arguments[i].name], L(", "))
    \o <<L(") {}"), endl>>

RECURSIVE generateRoxygen(_)
generateRoxygen(attrs) ==
    IF attrs = <<>> THEN <<>>
    ELSE (IF isExportedFunction(Head(attrs)) /\ Head(attrs).roxygen # <<>>
          THEN <<endl>>
               \o Flatten([i \in 1..Len(Head(attrs).roxygen) |->
                             <<Head(attrs).roxygen[i], endl>>])
               \o generateRoxygenPlaceholder(Head(attrs))
               \o <<endl>>
          ELSE <<>>)
         \o generateRoxygen(Tail(attrs))

-----------------------------------------------------------------------------
(* ExportsGenerator and its three subclasses *)

CppTarget == "src/RcppExports.cpp"
RTarget == "R/RcppExports.R"
IncludeTarget == "inst/include/pkg.hpp"
Targets == {CppTarget, RTarget, IncludeTarget}

packageName == <<"p","k","g">>

\* the order of generators.add in compileAttributes
GeneratorOrder == <<"CppExports", "RExports", "CppInclude">>

TargetOf(kind) ==
    CASE kind = "CppExports" -> CppTarget
      [] kind = "RExports" -> RTarget
      [] OTHER -> IncludeTarget

CommentPrefixOf(kind) == IF kind = "RExports" THEN "#" ELSE "//"

generatorToken == L("10BE3573-1514-4C36-9D1C-5A225CD40393")

\* a test that takes every file for the generator's own
isSafeToOverwrite_Always(existingCode) == TRUE

isSafeToOverwrite(existingCode) ==
    existingCode = <<>> \/ Contains(existingCode, generatorToken)

NoFile == [exists |-> FALSE, text |-> <<>>]
File(text) == [exists |-> TRUE, text |-> text]

\* the state of a generator right after its constructor
NewGenerator(kind, existingCode) ==
    [kind |-> kind,
     targetFile |-> TargetOf(kind),
     commentPrefix |-> CommentPrefixOf(kind),
     existingCode |-> existingCode,
     codeStream |-> <<>>,
     hasCppInterface |-> FALSE,
     rExports |-> <<>>,
     committed |-> "no",
     ret |-> FALSE]

writeBegin(g) ==
    CASE g.kind = "CppExports" ->
           [g EXCEPT !.codeStream = @ \o <<L("RCPP_MODULE(RcppExports) {"), endl>>]
      [] g.kind = "CppInclude" ->
           [g EXCEPT !.codeStream = @ \o <<L("namespace "), packageName, L(" {"), endl>>]
      [] OTHER -> g

\* a hidden-function test that finds no name hidden
IsHiddenName_Never(name) == FALSE

\* the hidden-function test of CppIncludeGenerator::writeFunctions
IsHiddenName(name) == Len(name) > 0 /\ name[1] = "."

\* one forwarding stub
IncludeStub(function) ==
    <<L("    inline ")>> \o FunctionText(function) \o <<L(" {"), endl>>
    \o <<L("        static "), function.type, L("(*p_"), function.name, L(")(")>>
    \o Joined([i \in 1..Len(function.arguments) |-> function.arguments[i].type], L(","))
    \o <<L(") = Rcpp::GetCppCallable(\"RcppExports\", "),
         L("\""), function.name, L("\");"), endl>>
    \o <<L("        return p_"), function.name, L("(")>>
    \o Joined([i \in 1..Len(function.arguments) |-> function.arguments[i].name], L(","))
    \o <<L(");"), endl, L("    }"), endl>>

RECURSIVE IncludeStubs(_)
IncludeStubs(attrs) ==
    IF attrs = <<>> THEN <<>>
    ELSE (IF isExportedFunction(Head(attrs))
             /\ ~IsHiddenName(renamedTo(Head(attrs).function,
                                        exportedName(Head(attrs))).name)
          THEN IncludeStub(renamedTo(Head(attrs).function, exportedName(Head(attrs))))
          ELSE <<>>)
         \o IncludeStubs(Tail(attrs))

CppIncludeWriteFunctions(g, attributes) ==
    IF ~hasInterface(attributes, kInterfaceCpp) THEN g
    ELSE [g EXCEPT !.hasCppInterface = TRUE,
                   !.codeStream = @ \o IncludeStubs(attributes.attrs)]

RECURSIVE ExportedNames(_)
ExportedNames(attrs) ==
    IF attrs = <<>> THEN <<>>
    ELSE (IF isExportedFunction(Head(attrs)) THEN <<exportedName(Head(attrs))>>
          ELSE <<>>)
         \o ExportedNames(Tail(attrs))

\* a writeFunctions that records the exports of every file
RExportsWriteFunctions_AnyInterface(g, attributes) ==
    [g EXCEPT !.rExports = @ \o ExportedNames(attributes.attrs),
              !.codeStream = @ \o generateRoxygen(attributes.attrs)]

RExportsWriteFunctions(g, attributes) ==
    IF hasInterface(attributes, kInterfaceR)
    THEN [g EXCEPT !.rExports = @ \o ExportedNames(attributes.attrs),
                   !.codeStream = @ \o generateRoxygen(attributes.attrs)]
    ELSE g

CppExportsWriteFunctions(g, attributes) ==
    [g EXCEPT !.codeStream = @ \o generateCppModuleFunctions(attributes.attrs)]

writeFunctions(g, attributes) ==
    CASE g.kind = "CppExports" -> CppExportsWriteFunctions(g, attributes)
      [] g.kind = "RExports" -> RExportsWriteFunctions(g, attributes)
      [] OTHER -> CppIncludeWriteFunctions(g, attributes)

RExportsWriteEnd(g) ==
    [g EXCEPT !.codeStream =
        @ \o <<L("Rcpp::loadModule(\"RcppExports\", ")>>
          \o (IF Len(g.rExports) > 0
              THEN <<L("what = c(")>>
                   \o Flatten([i \in 1..Len(g.rExports) |->
                         (IF i # 1
                          THEN <<L("                                         ")>>
                          ELSE <<>>)
                         \o <<L("\""), g.rExports[i], L("\"")>>
                         \o (IF i # Len(g.rExports) THEN <<L(","), endl>> ELSE <<>>)])
                   \o <<L("))"), endl>>
              ELSE <<L("what = character())")>>)]

writeEnd(g) ==
    CASE g.kind = "RExports" -> RExportsWriteEnd(g)
      [] OTHER -> [g EXCEPT !.codeStream = @ \o <<L("}"), endl>>]

\* a header that does not carry the token
HeaderText_NoToken(commentPrefix) ==
    <<L(commentPrefix), L(" This file was generated by "),
      L("Rcpp::compileAttributes"), endl, endl>>

\* the header ExportsGenerator::commit writes before the preamble
HeaderText(commentPrefix) ==
    <<L(commentPrefix), L(" This file was generated by "),
      L("Rcpp::compileAttributes"), endl,
      L(commentPrefix), L(" Generator token: "), generatorToken, endl, endl>>

\* the preamble lines: each line followed by suffix and endl, then a blank line
PreambleLines(lines, suffix) ==
    IF lines = <<>> THEN <<>>
    ELSE Flatten([i \in 1..Len(lines) |-> <<lines[i]>> \o suffix \o <<endl>>])
         \o <<endl>>

\* the outcome of a commit: the files after it, what it returned, whether it
\* threw, and what it did to its target
Outcome(files, dir, ret, threw, did) ==
    [files |-> files, dir |-> dir, ret |-> ret, threw |-> threw, did |-> did]

\* a commit that compares the body alone with what was read
BaseCommit_ComparesBody(g, preamble, files, dir, openFails) ==
    LET code == g.codeStream
        generatedCode == HeaderText(g.commentPrefix) \o preamble \o code
    IN  IF code = <<>> /\ ~files[g.targetFile].exists
        THEN Outcome(files, dir, FALSE, FALSE, "nothing")
        ELSE IF code # g.existingCode
        THEN IF openFails
             THEN Outcome(files, dir, FALSE, TRUE, "threw")
             ELSE Outcome([files EXCEPT ![g.targetFile] = File(generatedCode)],
                          dir, TRUE, FALSE, "wrote")
        ELSE Outcome(files, dir, FALSE, FALSE, "unchanged")

\* a commit without the test for an empty body and a missing target
BaseCommit_NoEmptyTest(g, preamble, files, dir, openFails) ==
    LET code == g.codeStream
        generatedCode == HeaderText(g.commentPrefix) \o preamble \o code
    IN  IF generatedCode # g.existingCode
        THEN IF openFails
             THEN Outcome(files, dir, FALSE, TRUE, "threw")
             ELSE Outcome([files EXCEPT ![g.targetFile] = File(generatedCode)],
                          dir, TRUE, FALSE, "wrote")
        ELSE Outcome(files, dir, FALSE, FALSE, "unchanged")

\* ExportsGenerator::commit(preamble); openFails: the ofstream cannot be opened
BaseCommit(g, preamble, files, dir, openFails) ==
    LET code == g.codeStream
        generatedCode == HeaderText(g.commentPrefix) \o preamble \o code
    IN  IF code = <<>> /\ ~files[g.targetFile].exists
        THEN Outcome(files, dir, FALSE, FALSE, "nothing")
        ELSE IF generatedCode # g.existingCode
        THEN IF openFails
             THEN Outcome(files, dir, FALSE, TRUE, "threw")
             ELSE Outcome([files EXCEPT ![g.targetFile] = File(generatedCode)],
                          dir, TRUE, FALSE, "wrote")
        ELSE Outcome(files, dir, FALSE, FALSE, "unchanged")

CppExportsCommit(g, includes, protos, files, dir, openFails) ==
    BaseCommit(g, PreambleLines(includes, <<>>) \o PreambleLines(protos, <<L(";")>>),
               files, dir, openFails)

\* removeFile
Removed(files, path) ==
    IF files[path].exists THEN [files EXCEPT ![path] = NoFile] ELSE files

\* a commit of the include file that reports a change whenever it removes
CppIncludeCommit_RemoveReturnsTrue(g, includes, protos, files, dir, openFails) ==
    IF g.hasCppInterface
    THEN BaseCommit(g, PreambleLines(includes, <<>>), files, TRUE, openFails)
    ELSE Outcome(Removed(files, g.targetFile), dir, TRUE, FALSE, "removed")

\* CppIncludeGenerator::commit
CppIncludeCommit(g, includes, protos, files, dir, openFails) ==
    IF g.hasCppInterface
    THEN BaseCommit(g, PreambleLines(includes, <<>>), files, TRUE, openFails)
    ELSE Outcome(Removed(files, g.targetFile), dir, FALSE, FALSE, "removed")

\* a commit of the wrapper script that puts the prototypes before the body
RExportsCommit_WithPrototypes(g, includes, protos, files, dir, openFails) ==
    BaseCommit(g, PreambleLines(protos, <<L(";")>>), files, dir, openFails)

RExportsCommit(g, includes, protos, files, dir, openFails) ==
    BaseCommit(g, <<>>, files, dir, openFails)

\* the virtual commit(includes, prototypes)
GeneratorCommit(g, includes, protos, files, dir, openFails) ==
    CASE g.kind = "CppExports" -> CppExportsCommit(g, includes, protos, files, dir, openFails)
      [] g.kind = "RExports" -> RExportsCommit(g, includes, protos, files, dir, openFails)
      [] OTHER -> CppIncludeCommit(g, includes, protos, files, dir, openFails)

-----------------------------------------------------------------------------
(* compileAttributes *)

\* what a target file may hold before the first request: nothing, an empty
\* file, a hand-written file, a file that carries the generator token
InitialFiles ==
    {NoFile,
     File(<<>>),
     File(<<L("hand written")>>),
     File(<<L("// mine "), generatorToken, L(" and other text")>>)}

NoRequest == [files |-> <<>>, includes |-> <<>>]

ExportsInit ==
    /\ fs \in [Targets -> InitialFiles]
    /\ includeDir = fs[IncludeTarget].exists
    /\ pc = "idle"
    /\ req = NoRequest
    /\ gens = <<>>
    /\ prototypes = <<>>
    /\ idx = 0
    /\ wrote = FALSE
    /\ result = "none"
    /\ fsAtStart = fs
    /\ rerun = FALSE
    /\ failures = 0
    /\ phases = <<>>

\* one call on generator number i; k: the index of the file it is given
Called(i, call, k) == <<i, call, k>>

\* a call made on every generator, in the order of generators_
FanOut(call, k) == [i \in 1..Len(gens) |-> Called(i, call, k)]

\* compileAttributes is entered (single-threaded: only when none is running)
Start(r) ==
    /\ pc \in {"idle", "done", "failed"}
    /\ pc' = "construct"
    /\ req' = r
    /\ rerun' = (pc = "done" /\ r = req)
    /\ gens' = <<>>
    /\ prototypes' = <<>>
    /\ idx' = 0
    /\ wrote' = FALSE
    /\ result' = "none"
    /\ fsAtStart' = fs
    /\ phases' = <<>>
    /\ UNCHANGED <<fs, includeDir>>
    /\ UNCHANGED failures
    /\ UNCHANGED contextVars

\* generators.add(new ...Generator(...)): the ExportsGenerator constructor of
\* the next generator; readFails: the ifstream cannot be opened
Construct(readFails) ==
    /\ pc = "construct"
    /\ readFails => /\ failures < MaxFailures
                    /\ fs[TargetOf(GeneratorOrder[Len(gens) + 1])].exists
    /\ failures' = IF readFails THEN failures + 1 ELSE failures
    /\ LET kind == GeneratorOrder[Len(gens) + 1]
           file == fs[TargetOf(kind)]
           existingCode == IF file.exists THEN file.text ELSE <<>>
       IN  IF file.exists /\ readFails
           THEN /\ pc' = "failed"
                /\ result' = "file_io_error"
                /\ UNCHANGED <<gens, phases>>
           ELSE IF ~isSafeToOverwrite(existingCode)
           THEN /\ pc' = "failed"
                /\ result' = "file_exists"
                /\ UNCHANGED <<gens, phases>>
           ELSE /\ gens' = Append(gens, NewGenerator(kind, existingCode))
                /\ phases' = Append(phases, Called(Len(gens) + 1, "construct", 0))
                /\ pc' = IF Len(gens) + 1 = Len(GeneratorOrder)
                         THEN "begin" ELSE "construct"
                /\ UNCHANGED result
    /\ UNCHANGED <<fs, includeDir, req, prototypes, idx, wrote, fsAtStart, rerun>>
    /\ UNCHANGED contextVars

\* generators.writeBegin()
WriteBegin ==
    /\ pc = "begin"
    /\ gens' = [i \in 1..Len(gens) |-> writeBegin(gens[i])]
    /\ phases' = phases \o FanOut("writeBegin", 0)
    /\ pc' = "functions"
    /\ idx' = 1
    /\ UNCHANGED <<fs, includeDir, req, prototypes, wrote, result, fsAtStart, rerun>>
    /\ UNCHANGED failures
    /\ UNCHANGED contextVars

\* a loop over cppFiles that hands files without attributes to the generators
WriteFunctions_NoSkip ==
    /\ pc = "functions"
    /\ idx <= Len(req.files)
    /\ LET attributes == req.files[idx]
       IN  /\ prototypes' = prototypes \o attributes.prototypes
           /\ gens' = [i \in 1..Len(gens) |-> writeFunctions(gens[i], attributes)]
           /\ phases' = phases \o FanOut("writeFunctions", idx)
    /\ idx' = idx + 1
    /\ UNCHANGED <<fs, includeDir, pc, req, wrote, result, fsAtStart, rerun>>
    /\ UNCHANGED failures
    /\ UNCHANGED contextVars

\* one iteration of the loop over cppFiles
WriteFunctions ==
    /\ pc = "functions"
    /\ idx <= Len(req.files)
    /\ LET attributes == req.files[idx]
       IN  IF attributes.attrs = <<>>
           THEN UNCHANGED <<gens, prototypes, phases>>
           ELSE /\ prototypes' = prototypes \o attributes.prototypes
                /\ gens' = [i \in 1..Len(gens) |-> writeFunctions(gens[i], attributes)]
                /\ phases' = phases \o FanOut("writeFunctions", idx)
    /\ idx' = idx + 1
    /\ UNCHANGED <<fs, includeDir, pc, req, wrote, result, fsAtStart, rerun>>
    /\ UNCHANGED failures
    /\ UNCHANGED contextVars

\* generators.writeEnd()
WriteEnd ==
    /\ pc = "functions"
    /\ idx > Len(req.files)
    /\ gens' = [i \in 1..Len(gens) |-> writeEnd(gens[i])]
    /\ phases' = phases \o FanOut("writeEnd", 0)
    /\ pc' = "commit"
    /\ idx' = 1
    /\ UNCHANGED <<fs, includeDir, req, prototypes, wrote, result, fsAtStart, rerun>>
    /\ UNCHANGED failures
    /\ UNCHANGED contextVars

\* a loop that stops at the first generator whose commit returns true
Commit_StopsAtFirstTrue(openFails) ==
    /\ pc = "commit"
    /\ openFails => /\ failures < MaxFailures
                    /\ GeneratorCommit(gens[idx], req.includes, prototypes,
                                       fs, includeDir, TRUE).threw
    /\ failures' = IF openFails THEN failures + 1 ELSE failures
    /\ LET out == GeneratorCommit(gens[idx], req.includes, prototypes,
                                  fs, includeDir, openFails)
       IN  /\ fs' = out.files
           /\ includeDir' = out.dir
           /\ gens' = [gens EXCEPT ![idx].committed = out.did, ![idx].ret = out.ret]
           /\ phases' = Append(phases, Called(idx, "commit", 0))
           /\ IF out.threw
              THEN /\ pc' = "failed"
                   /\ result' = "file_io_error"
                   /\ UNCHANGED <<wrote, idx>>
              ELSE /\ wrote' = (wrote \/ out.ret)
                   /\ IF idx = Len(gens) \/ out.ret
                      THEN /\ pc' = "done"
                           /\ result' = IF wrote' THEN "true" ELSE "false"
                           /\ UNCHANGED idx
                      ELSE /\ idx' = idx + 1
                           /\ UNCHANGED <<pc, result>>
    /\ UNCHANGED <<req, prototypes, fsAtStart, rerun>>
    /\ UNCHANGED contextVars

\* a loop that puts the files back as they were when a commit throws
Commit_RollsBack(openFails) ==
    /\ pc = "commit"
    /\ openFails => /\ failures < MaxFailures
                    /\ GeneratorCommit(gens[idx], req.includes, prototypes,
                                       fs, includeDir, TRUE).threw
    /\ failures' = IF openFails THEN failures + 1 ELSE failures
    /\ LET out == GeneratorCommit(gens[idx], req.includes, prototypes,
                                  fs, includeDir, openFails)
       IN  /\ fs' = IF out.threw THEN fsAtStart ELSE out.files
           /\ includeDir' = out.dir
           /\ gens' = [gens EXCEPT ![idx].committed = out.did, ![idx].ret = out.ret]
           /\ phases' = Append(phases, Called(idx, "commit", 0))
           /\ IF out.threw
              THEN /\ pc' = "failed"
                   /\ result' = "file_io_error"
                   /\ UNCHANGED <<wrote, idx>>
              ELSE /\ wrote' = (wrote \/ out.ret)
                   /\ IF idx = Len(gens)
                      THEN /\ pc' = "done"
                           /\ result' = IF wrote' THEN "true" ELSE "false"
                           /\ UNCHANGED idx
                      ELSE /\ idx' = idx + 1
                           /\ UNCHANGED <<pc, result>>
    /\ UNCHANGED <<req, prototypes, fsAtStart, rerun>>
    /\ UNCHANGED contextVars

\* one iteration of the loop of ExportsGenerators::commit; after the last one
\* compileAttributes returns wrote; openFails: the ofstream cannot be opened
Commit(openFails) ==
    /\ pc = "commit"
    /\ openFails => /\ failures < MaxFailures
                    /\ GeneratorCommit(gens[idx], req.includes, prototypes,
                                       fs, includeDir, TRUE).threw
    /\ failures' = IF openFails THEN failures + 1 ELSE failures
    /\ LET out == GeneratorCommit(gens[idx], req.includes, prototypes,
                                  fs, includeDir, openFails)
       IN  /\ fs' = out.files
           /\ includeDir' = out.dir
           /\ gens' = [gens EXCEPT ![idx].committed = out.did, ![idx].ret = out.ret]
           /\ phases' = Append(phases, Called(idx, "commit", 0))
           /\ IF out.threw
              THEN /\ pc' = "failed"
                   /\ result' = "file_io_error"
                   /\ UNCHANGED <<wrote, idx>>
              ELSE /\ wrote' = (wrote \/ out.ret)
                   /\ IF idx = Len(gens)
                      THEN /\ pc' = "done"
                           /\ result' = IF wrote' THEN "true" ELSE "false"
                           /\ UNCHANGED idx
                      ELSE /\ idx' = idx + 1
                           /\ UNCHANGED <<pc, result>>
    /\ UNCHANGED <<req, prototypes, fsAtStart, rerun>>
    /\ UNCHANGED contextVars

-----------------------------------------------------------------------------
(* SourceCppDynlib and SourceCppDynlibCache *)

SourcePaths == {"a.cpp"}               \* the source files that exist
Paths == SourcePaths \cup {""}         \* what sFile may be
Codes == {"", "int one() { return 1; }"}   \* what sCode may be ("" for NULL)
Contents == {"A", "B"}                 \* what a source file may hold
Dirs == 1..MaxDirs

\* SourceFileAttributes(path): the parser, on the file's current content
ParsedSource(content) ==
    IF content = "A" THEN FileA ELSE FileB

\* the text of a source file
SourceText(content) == ParsedSource(content).prototypes

\* SourceCppDynlib(): every member default-constructed (cppSourceLastModified_,
\* fileSep_ and dynlibExt_ are left out: the first is never read, the others
\* are the platform's)
EmptyDynlib ==
    [cppSourcePath |-> "", generatedCpp |-> <<>>,
     cppSourceFilename |-> "", moduleName |-> <<>>, buildDirectory |-> 0,
     exportedFunctions |-> <<>>, depends |-> <<>>]

isEmpty(dynlib) == dynlib.cppSourcePath = ""

NoDir == [exists |-> FALSE, source |-> "",
          generated |-> [exists |-> FALSE, mtime |-> 0, text |-> <<>>],
          dynlib |-> FALSE]

\* FileInfo(path).lastModified(): 0 when the file does not exist
LastModified(file) == IF file.exists THEN file.mtime ELSE 0

\* a FileInfo that finds a file at every path
SourceInfo_AllExist(srcs, path) ==
    IF path \in SourcePaths THEN srcs[path]
    ELSE [exists |-> TRUE, mtime |-> 0, content |-> "A"]

SourceInfo(srcs, path) ==
    IF path \in SourcePaths THEN srcs[path]
    ELSE [exists |-> FALSE, mtime |-> 0, content |-> "A"]

isBuilt(dynlib, dirs) == dirs[dynlib.buildDirectory].dynlib

\* a dirty test that looks at the modification times alone
isSourceDirty_NewerOnly(dynlib, srcs, dirs) ==
    LastModified(SourceInfo(srcs, dynlib.cppSourcePath))
      > LastModified(dirs[dynlib.buildDirectory].generated)

\* a dirty test that takes a source as old as the generated copy for dirty
isSourceDirty_NotOlder(dynlib, srcs, dirs) ==
    \/ LastModified(SourceInfo(srcs, dynlib.cppSourcePath))
         >= LastModified(dirs[dynlib.buildDirectory].generated)
    \/ ~dirs[dynlib.buildDirectory].dynlib

\* a dirty test that looks at the dynlib alone
isSourceDirty_DynlibOnly(dynlib, srcs, dirs) ==
    ~dirs[dynlib.buildDirectory].dynlib

isSourceDirty(dynlib, srcs, dirs) ==
    \/ LastModified(SourceInfo(srcs, dynlib.cppSourcePath))
         > LastModified(dirs[dynlib.buildDirectory].generated)
    \/ ~dirs[dynlib.buildDirectory].dynlib

RECURSIVE DependsNames(_)
DependsNames(attrs) ==
    IF attrs = <<>> THEN <<>>
    ELSE (IF Head(attrs).name = kExportAttribute /\ ~FunctionEmpty(Head(attrs).function)
          THEN <<>>
          ELSE IF Head(attrs).name = kDependsAttribute
          THEN [i \in 1..Len(Head(attrs).params) |-> Head(attrs).params[i].name]
          ELSE <<>>)
         \o DependsNames(Tail(attrs))

\* a regenerateSource that appends to the generated file and to the name lists
\* it finds
regenerateSource_Accumulates(dynlib, srcs, dir, now) ==
    LET content == SourceInfo(srcs, dynlib.cppSourcePath).content
        attrs == ParsedSource(content).attrs
        generatedCpp == generateCppModule(dynlib.moduleName, attrs)
    IN  [dynlib |-> [dynlib EXCEPT
                       !.generatedCpp = generatedCpp,
                       !.exportedFunctions = @ \o ExportedNames(attrs),
                       !.depends = @ \o DependsNames(attrs)],
         dir |-> [dir EXCEPT !.generated =
                    [exists |-> TRUE, mtime |-> now,
                     text |-> (IF dir.generated.exists
                               THEN dir.generated.text ELSE SourceText(content))
                              \o <<endl>> \o generatedCpp]]]

\* regenerateSource(): the dynlib and its build directory afterwards
regenerateSource(dynlib, srcs, dir, now) ==
    LET content == SourceInfo(srcs, dynlib.cppSourcePath).content
        attrs == ParsedSource(content).attrs
        generatedCpp == generateCppModule(dynlib.moduleName, attrs)
        copied == [exists |-> TRUE, mtime |-> now, text |-> SourceText(content)]
    IN  [dynlib |-> [dynlib EXCEPT
                       !.generatedCpp = generatedCpp,
                       !.exportedFunctions = ExportedNames(attrs),
                       !.depends = DependsNames(attrs)],
         dir |-> [dir EXCEPT !.generated =
                    [copied EXCEPT !.text = @ \o <<endl>> \o generatedCpp]]]

\* the constructor up to regenerateSource: d is what tempfile returned,
\* n what sample returned
NewDynlib(path, d, n) ==
    [EmptyDynlib EXCEPT
        !.cppSourcePath = path,
        !.cppSourceFilename = path,
        !.buildDirectory = d,
        !.moduleName = <<"sourceCpp_", ToString(n)>>]

insertFile(entries, file, dynlib) ==
    Append(entries, [file |-> file, code |-> "", dynlib |-> dynlib])

insertCode(entries, code, dynlib) ==
    Append(entries, [file |-> "", code |-> code, dynlib |-> dynlib])

RECURSIVE lookupByFile(_, _)
lookupByFile(entries, file) ==
    IF entries = <<>> THEN EmptyDynlib
    ELSE IF Head(entries).file = file THEN Head(entries).dynlib
    ELSE lookupByFile(Tail(entries), file)

RECURSIVE lookupByCode(_, _)
lookupByCode(entries, code) ==
    IF entries = <<>> THEN EmptyDynlib
    ELSE IF Head(entries).code = code THEN Head(entries).dynlib
    ELSE lookupByCode(Tail(entries), code)

-----------------------------------------------------------------------------
(* sourceCppContext and its environment *)

NoContext ==
    [moduleName |-> <<>>, cppSourcePath |-> "", buildRequired |-> FALSE,
     buildDirectory |-> 0, generatedCpp |-> <<>>, exportedFunctions |-> <<>>,
     cppSourceFilename |-> "", depends |-> <<>>]

\* a context list that never asks for a build
ContextOf_BuildNeverRequired(dynlib, buildRequired) ==
    [moduleName |-> dynlib.moduleName,
     cppSourcePath |-> dynlib.cppSourcePath,
     buildRequired |-> FALSE,
     buildDirectory |-> dynlib.buildDirectory,
     generatedCpp |-> dynlib.generatedCpp,
     exportedFunctions |-> dynlib.exportedFunctions,
     cppSourceFilename |-> dynlib.cppSourceFilename,
     depends |-> dynlib.depends]

\* the context list sourceCppContext returns
ContextOf(dynlib, buildRequired) ==
    [moduleName |-> dynlib.moduleName,
     cppSourcePath |-> dynlib.cppSourcePath,
     buildRequired |-> buildRequired,
     buildDirectory |-> dynlib.buildDirectory,
     generatedCpp |-> dynlib.generatedCpp,
     exportedFunctions |-> dynlib.exportedFunctions,
     cppSourceFilename |-> dynlib.cppSourceFilename,
     depends |-> dynlib.depends]

NoLater == [before |-> FALSE, generated |-> FALSE]

\* no call yet
NoCall ==
    [completed |-> FALSE, returned |-> FALSE, threw |-> "",
     file |-> "", code |-> "",
     hit |-> FALSE, built |-> FALSE, newer |-> FALSE, dirty |-> FALSE,
     regenerated |-> FALSE, later |-> NoLater,
     repeat |-> FALSE, previousModuleName |-> <<>>,
     entriesBefore |-> 0, dirsBefore |-> 0,
     context |-> NoContext]

ContextInit ==
    /\ clock = 0
    /\ sources = [p \in SourcePaths |-> [exists |-> TRUE, mtime |-> 0, content |-> "A"]]
    /\ buildDirs = [d \in Dirs |-> NoDir]
    /\ cache = <<>>
    /\ ctx = NoCall
    /\ inserted = <<>>
    /\ later = [d \in Dirs |-> NoLater]

\* the package before any request
ExportsQuiet ==
    /\ fs = [t \in Targets |-> NoFile]
    /\ includeDir = FALSE
    /\ pc = "idle"
    /\ req = NoRequest
    /\ gens = <<>>
    /\ prototypes = <<>>
    /\ idx = 0
    /\ wrote = FALSE
    /\ result = "none"
    /\ fsAtStart = fs
    /\ rerun = FALSE
    /\ failures = 0
    /\ phases = <<>>

DirsInUse(dirs) == {d \in Dirs : dirs[d].exists}

\* a cache lookup that goes by the path whatever the code
CacheLookup_ByFile(entries, file, code) == lookupByFile(entries, file)

\* the cache lookup of sourceCppContext
CacheLookup(entries, file, code) ==
    IF code # "" THEN lookupByCode(entries, code) ELSE lookupByFile(entries, file)

\* the cache insert of sourceCppContext
CacheInsert(entries, file, code, dynlib) ==
    IF code # "" THEN insertCode(entries, code, dynlib)
    ELSE insertFile(entries, file, dynlib)

\* the call follows a call with the same path and no code that returned, and the
\* file at that path has neither been touched nor edited in between
Repeats(file, code) ==
    ctx.returned /\ ctx.code = "" /\ code = "" /\ ctx.file = file

\* One call of sourceCppContext(sFile, sCode, sPlatform); n is what sample
\* returns to the constructor.
SourceCppContext(file, code) ==
    LET found == CacheLookup(cache, file, code)
        miss == isEmpty(found)
        d == IF miss THEN Cardinality(DirsInUse(buildDirs)) + 1
             ELSE found.buildDirectory
        call == [NoCall EXCEPT
                   !.completed = TRUE,
                   !.file = file, !.code = code, !.hit = ~miss,
                   !.entriesBefore = Len(cache),
                   !.dirsBefore = Cardinality(DirsInUse(buildDirs)),
                   !.repeat = Repeats(file, code),
                   !.previousModuleName = IF Repeats(file, code)
                                          THEN ctx.context.moduleName ELSE <<>>]
    IN  /\ IF miss /\ ~SourceInfo(sources, file).exists
           THEN \* the constructor throws file_not_found before it creates anything
                /\ ctx' = [call EXCEPT !.threw = "file_not_found"]
                /\ later' = [e \in Dirs |-> NoLater]
                /\ UNCHANGED <<buildDirs, cache, inserted>>
           ELSE IF miss
           THEN /\ d \in Dirs
                /\ \E n \in 1..SampleRange :
                   LET dir == [NoDir EXCEPT !.exists = TRUE, !.source = file]
                       regen == regenerateSource(NewDynlib(file, d, n),
                                                 sources, dir, clock)
                   IN  /\ buildDirs' = [buildDirs EXCEPT ![d] = regen.dir]
                       /\ cache' = CacheInsert(cache, file, code, regen.dynlib)
                       /\ inserted' = Append(inserted,
                              [file |-> file, code |-> code,
                               moduleName |-> regen.dynlib.moduleName,
                               buildDirectory |-> d])
                       /\ ctx' = [call EXCEPT
                                    !.returned = TRUE,
                                    !.regenerated = TRUE,
                                    !.context = ContextOf(regen.dynlib, TRUE)]
                /\ later' = [e \in Dirs |-> NoLater]
           ELSE LET seen == [call EXCEPT
                               !.built = isBuilt(found, buildDirs),
                               !.newer =
                                   LastModified(SourceInfo(sources, found.cppSourcePath))
                                     > LastModified(buildDirs[d].generated),
                               !.later = later[d]]
                IN  /\ later' = [e \in Dirs |-> NoLater]
                    /\ IF isSourceDirty(found, sources, buildDirs)
                       THEN LET regen == regenerateSource(found, sources,
                                                          buildDirs[d], clock)
                            IN  /\ buildDirs' = [buildDirs EXCEPT ![d] = regen.dir]
                                /\ ctx' = [seen EXCEPT
                                             !.returned = TRUE,
                                             !.dirty = TRUE,
                                             !.regenerated = TRUE,
                                             !.context = ContextOf(regen.dynlib, TRUE)]
                       ELSE /\ ctx' = [seen EXCEPT
                                         !.returned = TRUE,
                                         !.context = ContextOf(found,
                                                        ~isBuilt(found, buildDirs))]
                            /\ UNCHANGED buildDirs
                    /\ UNCHANGED <<cache, inserted>>
        /\ UNCHANGED <<clock, sources>>
        /\ UNCHANGED exportsVars

\* what is kept of the last call once the environment has moved
Settled(call) ==
    IF call.returned /\ call.code = "" /\ call.file \in SourcePaths
    THEN [NoCall EXCEPT !.returned = TRUE,
                        !.file = call.file,
                        !.context = [NoContext EXCEPT
                                       !.moduleName = call.context.moduleName]]
    ELSE NoCall

\* the same, when path has been given another mtime or content
Touched(path) == IF path = ctx.file THEN NoCall ELSE Settled(ctx)

\* time passes
Tick ==
    /\ clock < MaxTime
    /\ clock' = clock + 1
    /\ ctx' = Settled(ctx)
    /\ UNCHANGED <<sources, buildDirs, cache, inserted, later>>
    /\ UNCHANGED exportsVars

\* what an update of path's mtime from old to new means to the units built
\* from it: later than it was, later than the generated copy
LaterAfter(path, old, new) ==
    [d \in Dirs |->
        IF buildDirs[d].exists /\ buildDirs[d].source = path
        THEN [before |-> buildDirs[d].dynlib /\ new > old,
              generated |-> buildDirs[d].dynlib
                            /\ new > LastModified(buildDirs[d].generated)]
        ELSE later[d]]

\* the user gives a source file another modification time (touch)
SetMtime(path, t) ==
    /\ t # sources[path].mtime
    /\ sources' = [sources EXCEPT ![path].mtime = t]
    /\ later' = LaterAfter(path, sources[path].mtime, t)
    /\ ctx' = Touched(path)
    /\ UNCHANGED <<clock, buildDirs, cache, inserted>>
    /\ UNCHANGED exportsVars

\* the user edits a source file: another content, modified now
Edit(path, content) ==
    /\ content # sources[path].content
    /\ sources' = [sources EXCEPT ![path].content = content, ![path].mtime = clock]
    /\ later' = LaterAfter(path, sources[path].mtime, clock)
    /\ ctx' = Touched(path)
    /\ UNCHANGED <<clock, buildDirs, cache, inserted>>
    /\ UNCHANGED exportsVars

\* the caller (sourceCpp) compiles the generated source of a build directory
Build(d) ==
    /\ buildDirs[d].exists
    /\ buildDirs[d].generated.exists
    /\ ~buildDirs[d].dynlib
    /\ buildDirs' = [buildDirs EXCEPT ![d].dynlib = TRUE]
    /\ ctx' = Settled(ctx)
    /\ UNCHANGED <<clock, sources, cache, inserted, later>>
    /\ UNCHANGED exportsVars

-----------------------------------------------------------------------------
(* Specifications *)

ExportsNext ==
    \/ \E r \in Requests : Start(r)
    \/ \E readFails \in BOOLEAN : Construct(readFails)
    \/ WriteBegin
    \/ WriteFunctions
    \/ WriteEnd
    \/ \E openFails \in BOOLEAN : Commit(openFails)

ContextNext ==
    \/ \E file \in Paths, code \in Codes : SourceCppContext(file, code)
    \/ Tick
    \/ \E path \in SourcePaths, t \in 0..MaxTime : SetMtime(path, t)
    \/ \E path \in SourcePaths, content \in Contents : Edit(path, content)
    \/ \E d \in Dirs : Build(d)

\* ExportsGenerators::commit on its own: the generators as their constructors
\* and write calls may have left them (a body is empty until something is
\* written to it, hasCppInterface_ is set by a writeFunctions only, which
\* comes after writeBegin), over target files the constructors accept
CommitBodies == {<<>>, <<L("body"), endl>>}

CommitFiles == {f \in InitialFiles : isSafeToOverwrite(f.text)}

\* the prototypes compileAttributes may have collected when it commits
CommitPrototypes == {<<>>, <<L("int f(int x, int y)")>>}

\* the generator of the given kind over files, with body written to it
GeneratorAtCommit(kind, files, body, cpp) ==
    [NewGenerator(kind, files[TargetOf(kind)].text) EXCEPT
        !.codeStream = body, !.hasCppInterface = cpp]

CommitInit ==
    /\ fs \in [Targets -> CommitFiles]
    /\ includeDir = fs[IncludeTarget].exists
    /\ pc = "commit"
    /\ req \in [files : {<<>>}, includes : IncludeChoices]
    /\ \E b1, b2, b3 \in CommitBodies, cpp \in BOOLEAN :
          /\ cpp => b3 # <<>>
          /\ gens = <<GeneratorAtCommit("CppExports", fs, b1, FALSE),
                      GeneratorAtCommit("RExports", fs, b2, FALSE),
                      GeneratorAtCommit("CppInclude", fs, b3, cpp)>>
    /\ prototypes \in CommitPrototypes
    /\ idx = 1
    /\ wrote = FALSE
    /\ result = "none"
    /\ fsAtStart = fs
    /\ rerun = FALSE
    /\ failures = 0
    /\ phases = <<>>

CommitNext == \E openFails \in BOOLEAN : Commit(openFails)

InitExports == ExportsInit /\ ContextInit
InitCommit == CommitInit /\ ContextInit
InitContext == ExportsQuiet /\ ContextInit

\* compileAttributes requests, one after the other
SpecExports == InitExports /\ [][ExportsNext]_vars

\* ExportsGenerators::commit, from every state of the generators
SpecCommit == InitCommit /\ [][CommitNext]_vars

\* sourceCppContext calls, with the user and the compiler in between
SpecContext == InitContext /\ [][ContextNext]_vars

-----------------------------------------------------------------------------
(* Claims about compileAttributes (checked under SpecExports) *)

\* how many pieces of text are the piece p
Count(text, p) == Cardinality({i \in 1..Len(text) : text[i] = p})

\* the request got past the construction of its generators
PastConstruction == pc \in {"begin", "functions", "commit", "done"}

HasGenerator(t) == \E i \in 1..Len(gens) : gens[i].targetFile = t

\* C1: a target file that exists when the request starts and does not contain
\* the generator token makes the construction of its generator fail: no
\* generator is built over it, the request does not get past construction,
\* and none of the three files is written or removed.
C1_UnsafeTargetRejected ==
    \A t \in Targets :
        (pc # "idle" /\ fsAtStart[t].exists
            /\ ~Contains(fsAtStart[t].text, generatorToken))
        => /\ ~HasGenerator(t)
           /\ ~PastConstruction
           /\ fs = fsAtStart

\* what commit is to leave in the target of generator g: header, preamble, body
ExpectedText(g) ==
    HeaderText(g.commentPrefix)
    \o (CASE g.kind = "CppExports" ->
               PreambleLines(req.includes, <<>>)
               \o PreambleLines(prototypes, <<L(";")>>)
          [] g.kind = "CppInclude" -> PreambleLines(req.includes, <<>>)
          [] OTHER -> <<>>)
    \o g.codeStream

\* ExportsGenerator::commit ran for g and returned
BaseCommitted(g) == g.committed \in {"nothing", "unchanged", "wrote"}

\* C2: for a target that held the generator token (and whatever else) at
\* construction, ExportsGenerator::commit returns false and leaves the file
\* as it was when header + preamble + body equals what was read, and
\* otherwise replaces the file by exactly header + preamble + body and
\* returns true.
C2_CommitWritesOnlyOnDifference ==
    \A i \in 1..Len(gens) :
        LET g == gens[i]
        IN  (Contains(g.existingCode, generatorToken) /\ BaseCommitted(g))
            => IF ExpectedText(g) = g.existingCode
               THEN /\ g.committed = "unchanged"
                    /\ ~g.ret
                    /\ fs[g.targetFile] = File(g.existingCode)
                    /\ fs[g.targetFile] = fsAtStart[g.targetFile]
               ELSE /\ g.committed = "wrote"
                    /\ g.ret
                    /\ fs[g.targetFile] = File(ExpectedText(g))

\* one commit found its token-bearing target up to date, another one of the
\* same request rewrote its token-bearing target
C2_Witness ==
    \E i, j \in 1..Len(gens) :
        /\ Contains(gens[i].existingCode, generatorToken)
        /\ gens[i].committed = "unchanged"
        /\ Contains(gens[j].existingCode, generatorToken)
        /\ gens[j].committed = "wrote"
        /\ fs[gens[j].targetFile] # fsAtStart[gens[j].targetFile]

\* C3: a request that repeats the previous, completed request (same files,
\* same includes, nothing changed in between) returns false and leaves the
\* three files exactly as the first run left them.
C3_SecondRunIsNoOp ==
    (pc = "done" /\ rerun) => (result = "false" /\ fs = fsAtStart)

\* a repeated request has completed over a package whose three files exist
C3_Witness ==
    /\ pc = "done"
    /\ rerun
    /\ \A t \in Targets : fs[t].exists
    /\ \E i \in 1..Len(req.files) : req.files[i].attrs # <<>>

\* C4: compileAttributes returns true if and only if one of the three files
\* was written with changed content or removed during the request.
C4_TrueIffChanged ==
    pc = "done" => ((result = "true") <=> (\E t \in Targets : fs[t] # fsAtStart[t]))

\* the exported functions of a batch that get a stub in the forwarding
\* header: those of the files that have attributes and declare the cpp
\* interface, whose exported name does not begin with "."
RECURSIVE NativeExports(_)
NativeExports(files) ==
    IF files = <<>> THEN <<>>
    ELSE (IF Head(files).attrs # <<>> /\ kInterfaceCpp \in Head(files).interfaces
          THEN SelectSeq(ExportedNames(Head(files).attrs),
                         LAMBDA name : name = <<>> \/ name[1] # ".")
          ELSE <<>>)
         \o NativeExports(Tail(files))

\* C5: when a previously generated forwarding header exists and the batch has
\* no native-interface export, the header does not exist after the request.
C5_StaleHeaderDeleted ==
    (/\ pc = "done"
     /\ fsAtStart[IncludeTarget].exists
     /\ Contains(fsAtStart[IncludeTarget].text, generatorToken)
     /\ NativeExports(req.files) = <<>>)
    => ~fs[IncludeTarget].exists

\* the names of the forwarding stubs in a text: "    inline " type " " name "("
StubNames(text) ==
    LET at == SelectSeq([i \in 1..Len(text) |-> i],
                        LAMBDA i : text[i] = L("    inline "))
    IN  [k \in 1..Len(at) |-> text[at[k] + 3]]

\* the files the generators have been given so far
FilesWritten ==
    IF pc = "functions" THEN SubSeq(req.files, 1, idx - 1)
    ELSE IF pc \in {"commit", "done"} THEN req.files
    ELSE <<>>

\* C6: the forwarding header has exactly one stub for every exported function
\* of a file that declares the cpp interface, unless its exported name begins
\* with ".", and no other stub: none for a hidden name, none for a file
\* without the cpp interface; in the generator's stream, and in the file once
\* it is written.
C6_StubsAreTheVisibleNativeExports ==
    \A i \in 1..Len(gens) :
        (gens[i].kind = "CppInclude" /\ pc \in {"functions", "commit", "done"})
        => /\ StubNames(gens[i].codeStream) = NativeExports(FilesWritten)
           /\ gens[i].committed = "wrote"
              => StubNames(fs[IncludeTarget].text) = NativeExports(req.files)

\* a header was written for a batch with a hidden export in a cpp-interface
\* file, a visible one, and a file whose exports get no stub at all
C6_Witness ==
    /\ pc = "done"
    /\ Len(gens) = 3
    /\ gens[3].committed = "wrote"
    /\ StubNames(fs[IncludeTarget].text) = << <<"f">> >>
    /\ \E i \in 1..Len(req.files) :
          /\ kInterfaceCpp \in req.files[i].interfaces
          /\ \E k \in 1..Len(req.files[i].attrs) :
                /\ isExportedFunction(req.files[i].attrs[k])
                /\ exportedName(req.files[i].attrs[k]) = <<".", "g">>
    /\ \E i \in 1..Len(req.files) :
          /\ ExportedNames(req.files[i].attrs) # <<>>
          /\ NativeExports(<<req.files[i]>>) = <<>>

\* the commit of generator number idx threw
CommitThrew ==
    /\ pc = "failed"
    /\ idx \in 1..Len(gens)
    /\ gens[idx].committed = "threw"

\* C15: when the commit of the k-th generator throws, the request ends with
\* file_io_error; the target of every generator before k is as that
\* generator's commit left it (newly written where it wrote), and the
\* generators after k are not committed and their targets are as they were
\* when the request started.
C15_FailedCommitKeepsEarlierLeavesLater ==
    CommitThrew
    => /\ result = "file_io_error"
       /\ \A j \in 1..Len(gens) :
             /\ j < idx
                => /\ gens[j].committed \in {"wrote", "unchanged", "nothing", "removed"}
                   /\ gens[j].committed = "wrote"
                        => /\ fs[gens[j].targetFile] = File(ExpectedText(gens[j]))
                           /\ fs[gens[j].targetFile] # fsAtStart[gens[j].targetFile]
                   /\ gens[j].committed \in {"unchanged", "nothing"}
                        => fs[gens[j].targetFile] = fsAtStart[gens[j].targetFile]
                   /\ gens[j].committed = "removed"
                        => ~fs[gens[j].targetFile].exists
             /\ j > idx
                => /\ gens[j].committed = "no"
                   /\ fs[gens[j].targetFile] = fsAtStart[gens[j].targetFile]

\* the commit of the second generator threw after the first had rewritten its
\* file, and the third generator's file is there
C15_Witness ==
    /\ CommitThrew
    /\ idx = 2
    /\ gens[1].committed = "wrote"
    /\ fs[gens[1].targetFile] # fsAtStart[gens[1].targetFile]
    /\ fsAtStart[gens[1].targetFile].exists
    /\ fs[gens[3].targetFile].exists

\* a call made on each of the n generators, from the first to the last
Round(n, call, k) == [i \in 1..n |-> Called(i, call, k)]

\* the writeFunctions rounds of the files from number k on: one per file that
\* has attributes
RECURSIVE FunctionRounds(_, _, _)
FunctionRounds(n, files, k) ==
    IF k > Len(files) THEN <<>>
    ELSE (IF files[k].attrs # <<>> THEN Round(n, "writeFunctions", k) ELSE <<>>)
         \o FunctionRounds(n, files, k + 1)

\* the calls a request makes on its n generators when nothing fails
ExpectedPhases(n, files) ==
    Round(n, "construct", 0) \o Round(n, "writeBegin", 0)
    \o FunctionRounds(n, files, 1)
    \o Round(n, "writeEnd", 0) \o Round(n, "commit", 0)

IsPrefix(s, t) == Len(s) <= Len(t) /\ SubSeq(t, 1, Len(s)) = s

\* C16: the calls a request has made on its generators are, at every moment,
\* the beginning of: each generator constructed, in registration order;
\* writeBegin on each, in that order; for every file that has an attribute, in
\* input order, writeFunctions on each (nothing for a file without
\* attributes); writeEnd on each; commit on each. A request that completes
\* has made all of them, each commit ending with the file written, left as it
\* was, or removed: so every generator gets writeBegin, writeEnd and commit
\* exactly once, and no commit comes before a writeEnd.
C16_PhasesInOrder ==
    pc # "idle" =>
        /\ IsPrefix(phases, ExpectedPhases(Len(GeneratorOrder), req.files))
        /\ pc = "done" =>
              /\ phases = ExpectedPhases(Len(GeneratorOrder), req.files)
              /\ \A i \in 1..Len(gens) :
                    gens[i].committed \in {"wrote", "unchanged", "nothing", "removed"}

\* a completed request over two files that have attributes and one that has
\* none, whose commits wrote a file
C16_Witness ==
    /\ pc = "done"
    /\ Len(req.files) = 3
    /\ req.files[1].attrs # <<>>
    /\ req.files[2].attrs # <<>>
    /\ req.files[3].attrs = <<>>
    /\ Len(phases) = 18
    /\ \E i \in 1..Len(gens) : gens[i].committed = "wrote"

\* the registrations of a manifest body: <<exported name, function name>> of
\* every registration line
Registrations(text) ==
    LET at == SelectSeq([i \in 1..Len(text) |-> i],
                        LAMBDA i : text[i] = L("    Rcpp::function(\""))
    IN  [k \in 1..Len(at) |-> <<text[at[k] + 1], text[at[k] + 3]>>]

\* what the export attributes of one file that stand on a function bind
Bindings(attrs) ==
    LET at == SelectSeq([k \in 1..Len(attrs) |-> k],
                        LAMBDA k : attrs[k].name = kExportAttribute
                                   /\ attrs[k].function.name # <<>>)
    IN  [j \in 1..Len(at) |->
           <<IF attrs[at[j]].params # <<>> THEN attrs[at[j]].params[1].name
             ELSE attrs[at[j]].function.name,
             attrs[at[j]].function.name>>]

\* the same over the files of a batch, in order, whatever their interfaces
AllBindings(files) == Flatten([i \in 1..Len(files) |-> Bindings(files[i].attrs)])

\* C20: once writeEnd has run, the body of the manifest (the stream of the
\* CppExports generator) is one opening line, then one registration line for
\* every export attribute with a function, over all the files of the batch in
\* file order and attribute order whatever interfaces they declare, then one
\* closing line, and nothing else; each registration line binds the exported
\* name (the first parameter's name if the attribute has parameters, the
\* function's name if not) to the function's name.
C20_ManifestRegistersEveryExport ==
    \A i \in 1..Len(gens) :
        (gens[i].kind = "CppExports" /\ pc \in {"commit", "done"}) =>
            LET body == gens[i].codeStream
                bound == AllBindings(req.files)
            IN  /\ Len(body) = 2 + 6 * Len(bound) + 2
                /\ SubSeq(body, 1, 2) = <<L("RCPP_MODULE(RcppExports) {"), endl>>
                /\ SubSeq(body, Len(body) - 1, Len(body)) = <<L("}"), endl>>
                /\ Count(body, L("RCPP_MODULE(RcppExports) {")) = 1
                /\ Count(body, L("}")) = 1
                /\ Registrations(body) = bound
                /\ \A k \in 1..Len(bound) :
                      SubSeq(body, 6 * k - 3, 6 * k + 2)
                        = <<L("    Rcpp::function(\""), bound[k][1], L("\", &"),
                            bound[k][2], L(");"), endl>>

\* a completed manifest over a batch with exports in a file without the cpp
\* interface, an export attribute that stands on no function, a renamed
\* export and a file without attributes
C20_Witness ==
    /\ pc = "done"
    /\ \E i \in 1..Len(gens) :
          /\ gens[i].kind = "CppExports"
          /\ gens[i].committed = "wrote"
          /\ Len(Registrations(gens[i].codeStream)) = 3
          /\ \E k \in 1..3 : LET r == Registrations(gens[i].codeStream)[k]
                               IN  r[1] # r[2]
    /\ \E i \in 1..Len(req.files) :
          /\ kInterfaceCpp \notin req.files[i].interfaces
          /\ Bindings(req.files[i].attrs) # <<>>
    /\ \E i \in 1..Len(req.files) : \E k \in 1..Len(req.files[i].attrs) :
          /\ req.files[i].attrs[k].name = kExportAttribute
          /\ req.files[i].attrs[k].function.name = <<>>
    /\ \E i \in 1..Len(req.files) : req.files[i].attrs = <<>>

\* the exported names of the files of a batch that have attributes and declare
\* the r interface, in file order then attribute order
HostBindings(files) ==
    Flatten([i \in 1..Len(files) |->
               IF kInterfaceR \in files[i].interfaces
               THEN [j \in 1..Len(Bindings(files[i].attrs)) |->
                       Bindings(files[i].attrs)[j][1]]
               ELSE <<>>])

\* the names between quotes in a piece of text
QuotedNames(text) ==
    LET at == SelectSeq([i \in 1..Len(text) |-> i], LAMBDA i : text[i] = L("\""))
    IN  [k \in 1..(Len(at) \div 2) |-> text[at[2 * k - 1] + 1]]

\* where the module-load call of a wrapper script begins (0: nowhere)
LoadCallAt(text) ==
    LET at == {i \in 1..Len(text) : text[i] = L("Rcpp::loadModule(\"RcppExports\", ")}
    IN  IF at = {} THEN 0 ELSE CHOOSE i \in at : \A j \in at : i <= j

\* C21: once writeEnd has run, the body of the wrapper script (the stream of
\* the RExports generator) has exactly one module-load call, and ends with
\* it; the call lists, between quotes, the exported names of the exported
\* functions of the files that declare the r interface, in file order then
\* attribute order, and no other name; when there is no such name the call
\* is written with "what = character())" and no list.
C21_LoadCallListsHostExports ==
    \A i \in 1..Len(gens) :
        (gens[i].kind = "RExports" /\ pc \in {"commit", "done"}) =>
            LET body == gens[i].codeStream
                at == LoadCallAt(body)
                call == SubSeq(body, at + 1, Len(body))
                names == HostBindings(req.files)
            IN  /\ Count(body, L("Rcpp::loadModule(\"RcppExports\", ")) = 1
                /\ at > 0
                /\ IF names = <<>>
                   THEN call = <<L("what = character())")>>
                   ELSE /\ Head(call) = L("what = c(")
                        /\ SubSeq(call, Len(call) - 1, Len(call)) = <<L("))"), endl>>
                        /\ Count(call, L("\"")) = 2 * Len(names)
                        /\ QuotedNames(call) = names
                        /\ Count(call, L("what = character())")) = 0

\* a wrapper script was written whose call lists the two exports of a file
\* with the r interface and leaves out the export of a file without it
C21_Witness ==
    /\ pc = "done"
    /\ \E i \in 1..Len(gens) :
          /\ gens[i].kind = "RExports"
          /\ gens[i].committed = "wrote"
          /\ QuotedNames(SubSeq(gens[i].codeStream,
                                LoadCallAt(gens[i].codeStream),
                                Len(gens[i].codeStream)))
               = << <<"f">>, <<".", "g">> >>
    /\ \E i \in 1..Len(req.files) :
          /\ kInterfaceR \notin req.files[i].interfaces
          /\ Bindings(req.files[i].attrs) # <<>>

\* the export attributes on a function of the files that declare the r
\* interface, in file order then attribute order
HostExportAttributes(files) ==
    Flatten([i \in 1..Len(files) |->
               IF kInterfaceR \in files[i].interfaces
               THEN SelectSeq(files[i].attrs,
                              LAMBDA a : a.name = kExportAttribute
                                         /\ a.function.name # <<>>)
               ELSE <<>>])

\* those of them that have documentation lines
DocumentedHostExports(files) ==
    SelectSeq(HostExportAttributes(files), LAMBDA a : a.roxygen # <<>>)

\* where the placeholder declarations of a wrapper script are: the positions
\* of their "<- function(" pieces
PlaceholdersAt(text) ==
    SelectSeq([i \in 1..Len(text) |-> i], LAMBDA i : text[i] = L("<- function("))

\* the text from position p on is the pieces of want
TextAt(text, p, want) ==
    /\ p >= 1
    /\ p + Len(want) - 1 <= Len(text)
    /\ SubSeq(text, p, p + Len(want) - 1) = want

\* the body of the RExports generator, if there is one and writeEnd has run
WrapperBody ==
    IF pc \in {"commit", "done"} /\ Len(gens) >= 2 THEN gens[2].codeStream ELSE <<>>

\* C22 as stated: the wrapper script has one placeholder declaration for
\* every exported function of the files that declare the r interface, in
\* order, under the exported name.
C22_PlaceholderForEveryHostExport ==
    pc \in {"commit", "done"} =>
        LET at == PlaceholdersAt(WrapperBody)
            exports == HostExportAttributes(req.files)
        IN  /\ Len(at) = Len(exports)
            /\ \A k \in 1..Len(at) :
                  WrapperBody[at[k] - 1] = exportedName(exports[k])

\* C22, amended: the wrapper script has one placeholder declaration for every
\* exported function that has documentation lines, of the files that declare
\* the r interface, in file order then attribute order, and no other; the
\* placeholder comes right after the function's documentation lines, one per
\* line, and is the exported name, "<- function(", the function's argument
\* names separated by ", ", and ") {}".
C22_PlaceholderForEveryDocumentedHostExport ==
    pc \in {"commit", "done"} =>
        LET at == PlaceholdersAt(WrapperBody)
            exports == DocumentedHostExports(req.files)
        IN  /\ Len(at) = Len(exports)
            /\ \A k \in 1..Len(at) :
                  LET a == exports[k]
                      lines == Flatten([i \in 1..Len(a.roxygen) |->
                                          <<a.roxygen[i], endl>>])
                      names == [i \in 1..Len(a.function.arguments) |->
                                  a.function.arguments[i].name]
                  IN  /\ TextAt(WrapperBody, at[k] - 1 - Len(lines),
                                lines \o <<exportedName(a)>>)
                      /\ TextAt(WrapperBody, at[k] + 1,
                                Joined(names, L(", ")) \o <<L(") {}"), endl>>)

\* a wrapper script was written for a file with the r interface that has an
\* exported function with documentation lines and two arguments, and one
\* without documentation lines
C22_Witness ==
    /\ pc = "done"
    /\ Len(gens) = 3
    /\ gens[2].committed = "wrote"
    /\ Len(PlaceholdersAt(WrapperBody)) = 1
    /\ Len(HostExportAttributes(req.files)) = 2
    /\ \E k \in 1..Len(DocumentedHostExports(req.files)) :
          Len(DocumentedHostExports(req.files)[k].function.arguments) = 2

\* a file somebody else wrote: it is there, not empty, without the token
HandAuthored(file) ==
    file.exists /\ file.text # <<>> /\ ~Contains(file.text, generatorToken)

\* C24: no step of any request, of one that succeeds or of one that fails,
\* changes or removes a target file that is there, not empty and without the
\* generator token; so such a file is still there, the same, after any
\* sequence of requests.
C24_HandAuthoredFileKept ==
    [][\A t \in Targets : HandAuthored(fs[t]) => fs'[t] = fs[t]]_vars

\* a second request has failed on the hand-authored wrapper script after its
\* first generator was constructed, and the script is as it was
C24_Witness ==
    /\ pc = "failed"
    /\ result = "file_exists"
    /\ Len(gens) = 1
    /\ HandAuthored(fs[RTarget])
    /\ fs[RTarget] = fsAtStart[RTarget]
    /\ Contains(fs[CppTarget].text, generatorToken)
    /\ req.files # <<>>

\* C25: a file a commit has written begins with the header of its comment
\* prefix, which holds the generator token, whatever preamble and body
\* follow; and a request that starts with no hand-authored file at a target
\* path never fails with file_exists and leaves no hand-authored file at a
\* target path, so that the same holds of the request after it.
C25_WrittenFilesCarryToken ==
    /\ \A i \in 1..Len(gens) :
          gens[i].committed = "wrote" =>
              /\ fs[gens[i].targetFile].exists
              /\ TextAt(fs[gens[i].targetFile].text, 1,
                        HeaderText(gens[i].commentPrefix))
              /\ Contains(fs[gens[i].targetFile].text, generatorToken)
              /\ Contains(HeaderText(gens[i].commentPrefix), generatorToken)
    /\ (\A t \in Targets : ~HandAuthored(fsAtStart[t]))
          => /\ result # "file_exists"
             /\ \A t \in Targets : ~HandAuthored(fs[t])

\* a request has constructed its three generators over the three files an
\* earlier request wrote, and has written one of them again
C25_Witness ==
    /\ pc = "done"
    /\ Len(gens) = 3
    /\ \A i \in 1..3 :
          /\ fsAtStart[gens[i].targetFile].exists
          /\ TextAt(gens[i].existingCode, 1, HeaderText(gens[i].commentPrefix))
    /\ \E i \in 1..3 : gens[i].committed = "wrote"

-----------------------------------------------------------------------------
(* Claims about sourceCppContext (checked under SpecContext) *)

\* C7: any two SourceCppDynlib objects constructed in the process have
\* different module names, also when they are built from the same source.
C7_ModuleNamesDistinct ==
    \A i, j \in 1..Len(cache) :
        i # j => cache[i].dynlib.moduleName # cache[j].dynlib.moduleName

\* C8 as stated: the second of two successive calls for a path whose file was
\* neither touched nor edited in between returns the module name of the first
\* and buildRequired = false.
C8_RepeatedCallNeedsNoBuild ==
    (ctx.returned /\ ctx.repeat)
    => /\ ctx.context.moduleName = ctx.previousModuleName
       /\ ~ctx.context.buildRequired

\* C8 as amended: the second call returns the module name of the first; it
\* returns buildRequired = false provided that, when it is made, the unit's
\* dynlib exists and the source's mtime is not later than the generated
\* copy's.
C8_RepeatedCallSameModule ==
    (ctx.returned /\ ctx.repeat)
    => /\ ctx.context.moduleName = ctx.previousModuleName
       /\ ctx.hit
       /\ (ctx.built /\ ~ctx.newer) => ~ctx.context.buildRequired

\* a.cpp was asked for twice in a row, untouched, and the second call found
\* the dynlib built and asked for no build
C8_Witness ==
    /\ ctx.returned
    /\ ctx.repeat
    /\ ctx.file = "a.cpp"
    /\ ctx.built
    /\ ~ctx.newer
    /\ ~ctx.context.buildRequired
    /\ ctx.context.moduleName = ctx.previousModuleName

\* C9 as stated: once a cached unit's dynlib is built and its source's mtime is
\* then updated to a later time than it was, the next call that finds the
\* unit finds the source dirty, regenerates it and returns buildRequired.
C9_TouchedSourceIsRegenerated ==
    (ctx.hit /\ ctx.later.before)
    => (ctx.dirty /\ ctx.regenerated /\ ctx.returned /\ ctx.context.buildRequired)

\* C9 as amended: ... updated to a time later than the mtime of the unit's
\* generated copy ...
C9_NewerSourceIsRegenerated ==
    (ctx.hit /\ ctx.later.generated)
    => (ctx.dirty /\ ctx.regenerated /\ ctx.returned /\ ctx.context.buildRequired)

\* a built unit whose source was then dated after the generated copy has been
\* found again, and regenerated
C9_Witness ==
    /\ ctx.hit
    /\ ctx.built
    /\ ctx.later.generated
    /\ ctx.later.before
    /\ ctx.regenerated
    /\ ctx.context.buildRequired

\* the call's key is the key under which inserted[i] was inserted
SameKey(i) ==
    IF ctx.code # "" THEN inserted[i].code = ctx.code
    ELSE inserted[i].code = "" /\ inserted[i].file = ctx.file

\* C10: the cache is keyed by the code when there is code and by the path
\* otherwise. A miss that returns has constructed one SourceCppDynlib,
\* appended one entry under the call's key and asks for a build; a hit
\* constructs and inserts nothing; and a call whose key was inserted before is
\* a hit that returns the module name and build directory of that insert,
\* whatever its path when there is code.
C10_KeyedByCodeElsePath ==
    /\ (ctx.completed /\ ctx.returned /\ ~ctx.hit)
       => /\ Len(cache) = ctx.entriesBefore + 1
          /\ Cardinality(DirsInUse(buildDirs)) = ctx.dirsBefore + 1
          /\ ctx.context.buildRequired
          /\ cache[Len(cache)].code = ctx.code
          /\ cache[Len(cache)].file = (IF ctx.code # "" THEN "" ELSE ctx.file)
          /\ cache[Len(cache)].dynlib.moduleName = ctx.context.moduleName
          /\ cache[Len(cache)].dynlib.buildDirectory = ctx.context.buildDirectory
    /\ (ctx.completed /\ (ctx.hit \/ ctx.threw # ""))
       => /\ Len(cache) = ctx.entriesBefore
          /\ Cardinality(DirsInUse(buildDirs)) = ctx.dirsBefore
    /\ \A i \in 1..Len(inserted) :
          (ctx.completed /\ i <= ctx.entriesBefore /\ SameKey(i))
          => /\ ctx.hit
             /\ ctx.returned
             /\ ctx.context.moduleName = inserted[i].moduleName
             /\ ctx.context.buildDirectory = inserted[i].buildDirectory

\* a call with code found the unit inserted under that code by an earlier
\* call with another path, while another unit is cached under a path
C10_Witness ==
    /\ ctx.completed
    /\ ctx.returned
    /\ ctx.hit
    /\ ctx.code # ""
    /\ \E i \in 1..Len(inserted) :
          /\ inserted[i].code = ctx.code
          /\ inserted[i].file # ctx.file
          /\ inserted[i].moduleName = ctx.context.moduleName
          /\ inserted[i].buildDirectory = ctx.context.buildDirectory
    /\ \E i \in 1..Len(inserted) : inserted[i].code = ""

\* the inserts made with insertFile(file, ...), the inserts made with
\* insertCode(code, ...): positions in insertion order
InsertedByFile(file) ==
    {i \in 1..Len(inserted) : inserted[i].code = "" /\ inserted[i].file = file}

InsertedByCode(code) ==
    {i \in 1..Len(inserted) : inserted[i].code # "" /\ inserted[i].code = code}

Earliest(positions) == CHOOSE i \in positions : \A j \in positions : i <= j

\* the unit a lookup is to return when the inserts under its key are positions
UnitOfEarliest(positions, looked) ==
    IF positions = {} THEN isEmpty(looked)
    ELSE /\ ~isEmpty(looked)
         /\ looked.moduleName = inserted[Earliest(positions)].moduleName
         /\ looked.buildDirectory = inserted[Earliest(positions)].buildDirectory

\* C11: whatever has been inserted so far, lookupByFile(file) returns the
\* unit of the earliest insertFile(file, ...) and lookupByCode(code) the unit
\* of the earliest insertCode(code, ...), or an empty SourceCppDynlib when
\* there was none; every insert is still there, at its place.
C11_LookupFindsEarliestInsert ==
    /\ Len(cache) = Len(inserted)
    /\ \A i \in 1..Len(inserted) :
          /\ cache[i].dynlib.moduleName = inserted[i].moduleName
          /\ cache[i].dynlib.buildDirectory = inserted[i].buildDirectory
    /\ \A file \in Paths :
          UnitOfEarliest(InsertedByFile(file), lookupByFile(cache, file))
    /\ \A code \in Codes :
          UnitOfEarliest(InsertedByCode(code), lookupByCode(cache, code))

\* C12: a call that finds no unit in the cache and whose path names no
\* existing file fails with file_not_found, and that call leaves the cache
\* and every build directory (its generated file included) as they were.
C12_MissingSourceCreatesNothing ==
    [][(ctx'.completed /\ ~ctx'.hit /\ ctx'.file \notin SourcePaths)
       => /\ ctx'.threw = "file_not_found"
          /\ ~ctx'.returned
          /\ cache' = cache
          /\ inserted' = inserted
          /\ buildDirs' = buildDirs]_vars

\* a call for a missing path has failed while the cache holds a unit
C12_Witness ==
    /\ ctx.completed
    /\ ~ctx.hit
    /\ ctx.file \notin SourcePaths
    /\ ctx.threw = "file_not_found"
    /\ Len(cache) > 0
    /\ Cardinality(DirsInUse(buildDirs)) = Len(cache)

\* the names the export attributes on functions give, one per attribute
FunctionExports(attrs) ==
    LET at == SelectSeq([k \in 1..Len(attrs) |-> k],
                        LAMBDA k : attrs[k].name = kExportAttribute
                                   /\ ~FunctionEmpty(attrs[k].function))
    IN  [j \in 1..Len(at) |-> exportedName(attrs[at[j]])]

\* the names the depends attributes give
DependsParams(attrs) ==
    LET at == SelectSeq([k \in 1..Len(attrs) |-> k],
                        LAMBDA k : attrs[k].name = kDependsAttribute)
    IN  Flatten([j \in 1..Len(at) |->
                   [i \in 1..Len(attrs[at[j]].params) |-> attrs[at[j]].params[i].name]])

\* C17: whenever a call has run regenerateSource, for the first time (a miss)
\* or once more (a hit on a dirty unit), the generated file is the text of the
\* source as it is now, a line end and one registration block, the block
\* the context returns as generatedCpp, and nothing more; and the exported
\* function names and the dependency names of the context are those of the
\* source's attributes, each once: what a single run gives for this source.
C17_RegenerateSourceIdempotent ==
    (ctx.completed /\ ctx.regenerated) =>
        LET unit == ctx.context
            content == sources[unit.cppSourcePath].content
            attrs == ParsedSource(content).attrs
            text == buildDirs[unit.buildDirectory].generated.text
        IN  /\ text = SourceText(content) \o <<endl>> \o unit.generatedCpp
            /\ Count(text, L("RCPP_MODULE(")) = 1
            /\ Count(unit.generatedCpp, L("RCPP_MODULE(")) = 1
            /\ Count(unit.generatedCpp, L("    Rcpp::function(\""))
                  = Len(FunctionExports(attrs))
            /\ unit.exportedFunctions = FunctionExports(attrs)
            /\ unit.depends = DependsParams(attrs)

\* regenerateSource has run again on a unit whose source is as it was when the
\* unit was made, and has given what the first run gave
C17_Witness ==
    /\ ctx.completed /\ ctx.hit /\ ctx.regenerated
    /\ LET first == CacheLookup(cache, ctx.file, ctx.code)
       IN  /\ first.generatedCpp = ctx.context.generatedCpp
           /\ first.exportedFunctions = ctx.context.exportedFunctions
           /\ first.exportedFunctions # <<>>
           /\ first.depends = ctx.context.depends
    /\ buildDirs[ctx.context.buildDirectory].generated.mtime > 0

\* C18: when a call finds its unit in the cache, isSourceDirty() is true
\* exactly when, as the call is made, the source's modification time is
\* strictly later than the generated copy's or the build directory holds no
\* compiled artifact, and isBuilt() is true exactly when it holds one,
\* whatever the modification times.
C18_DirtyIffNewerOrNotBuilt ==
    [][(ctx'.completed /\ ctx'.hit) =>
          LET unit == CacheLookup(cache, ctx'.file, ctx'.code)
              dir == buildDirs[unit.buildDirectory]
          IN  /\ ctx'.dirty <=> (\/ sources[unit.cppSourcePath].mtime
                                      > dir.generated.mtime
                                 \/ ~dir.dynlib)
              /\ ctx'.built <=> dir.dynlib]_vars

\* a call has found its unit built and its source dirty
C18_Witness ==
    /\ ctx.completed /\ ctx.hit
    /\ ctx.built
    /\ ctx.dirty

\* C19: a call that returns gives buildRequired = FALSE exactly when it found
\* its unit in the cache with the compiled artifact there and the source not
\* later than the generated copy; on a miss, with a later source or without
\* the artifact it gives TRUE. A call that finds its unit runs
\* regenerateSource exactly when isSourceDirty() is true, and the generated
\* copy is left as it was when it is not.
C19_BuildRequiredUnlessCleanHit ==
    (ctx.completed /\ ctx.returned) =>
        /\ ~ctx.context.buildRequired <=> (ctx.hit /\ ctx.built /\ ~ctx.newer)
        /\ ctx.hit => (ctx.regenerated <=> ctx.dirty)
        /\ (ctx.hit /\ ~ctx.dirty) =>
              ctx.context.generatedCpp
                = CacheLookup(cache, ctx.file, ctx.code).generatedCpp
        /\ ~ctx.hit => ctx.regenerated

\* a call has found its unit built and not older than its source, and asks
\* for no build, after the first call for the unit had asked for one
C19_Witness ==
    /\ ctx.completed /\ ctx.returned
    /\ ctx.hit /\ ctx.built /\ ~ctx.newer /\ ~ctx.dirty
    /\ ~ctx.regenerated
    /\ ~ctx.context.buildRequired

\* the content a generated file was copied from, by the source text it
\* begins with
GeneratedFrom(text) ==
    CHOOSE content \in Contents : TextAt(text, 1, SourceText(content) \o <<endl>>)

\* C23: the generatedCpp, exportedFunctions and depends a call returns are
\* those of the latest regenerateSource run of its unit, that is of the
\* generated file in the unit's build directory as it is when the call
\* returns: the file is the source it was copied from, a line end and the
\* returned generatedCpp, and the names are those of that source's
\* attributes.
C23_ContextDescribesGeneratedFile ==
    (ctx.completed /\ ctx.returned) =>
        LET text == buildDirs[ctx.context.buildDirectory].generated.text
            attrs == ParsedSource(GeneratedFrom(text)).attrs
        IN  /\ text = SourceText(GeneratedFrom(text)) \o <<endl>>
                        \o ctx.context.generatedCpp
            /\ ctx.context.exportedFunctions = FunctionExports(attrs)
            /\ ctx.context.depends = DependsParams(attrs)

\* the insert that made the unit (build directories are never shared)
InsertOf(unit) ==
    CHOOSE i \in 1..Len(inserted) : inserted[i].buildDirectory = unit.buildDirectory

\* C26: for every string s, the empty one included, and whatever the cache
\* holds, lookupByFile(s) returns no unit that was inserted with insertCode
\* and lookupByCode(s) no unit that was inserted with insertFile.
C26_KeySpacesDisjoint ==
    \A s \in Paths \cup Codes :
        /\ ~isEmpty(lookupByFile(cache, s))
              => inserted[InsertOf(lookupByFile(cache, s))].code = ""
        /\ ~isEmpty(lookupByCode(cache, s))
              => inserted[InsertOf(lookupByCode(cache, s))].code # ""

-----------------------------------------------------------------------------
(* Claims about the commit of the generators (checked under SpecCommit) *)

\* C13: the commit of a generator whose body is empty and whose target file
\* does not exist changes no file and no directory, leaves the target
\* missing and returns false.
C13_EmptyBodyNoFileNoWrite ==
    [][(pc = "commit"
        /\ gens[idx].codeStream = <<>>
        /\ ~fs[gens[idx].targetFile].exists)
       => /\ fs' = fs
          /\ includeDir' = includeDir
          /\ ~fs'[gens[idx].targetFile].exists
          /\ ~gens'[idx].ret
          /\ gens'[idx].committed \in {"nothing", "removed"}
          /\ pc' # "failed"]_vars

\* the commit of ExportsGenerator has found an empty body and no target, next
\* to a generator that wrote its file
C13_Witness ==
    /\ \E i \in 1..Len(gens) :
          /\ gens[i].codeStream = <<>>
          /\ gens[i].committed = "nothing"
          /\ ~fsAtStart[gens[i].targetFile].exists
          /\ ~fs[gens[i].targetFile].exists
    /\ \E j \in 1..Len(gens) : gens[j].committed = "wrote"

\* C14: ExportsGenerators::commit commits the generators one by one in the
\* order they were added: each iteration commits the generator at idx, which
\* was not committed before while all before it were, and touches no other
\* generator; it goes on to the next one whatever the commit returned, and
\* after the last one returns true exactly when some commit returned true.
C14_EveryGeneratorCommittedOnceInOrder ==
    [][pc = "commit"
       => /\ \A j \in 1..Len(gens) : (gens[j].committed # "no") <=> (j < idx)
          /\ gens'[idx].committed # "no"
          /\ \A j \in 1..Len(gens) : j # idx => gens'[j] = gens[j]
          /\ (gens'[idx].committed # "threw" /\ idx < Len(gens))
                => (pc' = "commit" /\ idx' = idx + 1)
          /\ (gens'[idx].committed # "threw" /\ idx = Len(gens))
                => /\ pc' = "done"
                   /\ \A j \in 1..Len(gens) : gens'[j].committed # "no"
                   /\ (result' = "true") <=> (\E j \in 1..Len(gens) : gens'[j].ret)
                   /\ (result' = "false") <=> (\A j \in 1..Len(gens) : ~gens'[j].ret)]_vars

\* the first commit returned true, the second false, the third was run all
\* the same and returned true, and so did ExportsGenerators::commit
C14_Witness ==
    /\ pc = "done"
    /\ Len(gens) = 3
    /\ gens[1].ret /\ gens[1].committed = "wrote"
    /\ ~gens[2].ret /\ gens[2].committed = "nothing"
    /\ gens[3].ret /\ gens[3].committed = "wrote"
    /\ result = "true"

\* generator g as a later request constructs it over the files, given the
\* same body
ConstructedAgain(g, files) ==
    [NewGenerator(g.kind, files[g.targetFile].text) EXCEPT
        !.codeStream = g.codeStream, !.hasCppInterface = g.hasCppInterface,
        !.rExports = g.rExports]

\* C27: what the commit of the wrapper script does (the file it leaves, what
\* it returns) is what it would have done with any other includes and any
\* other prototypes, and what the commit of the forwarding header does is
\* what it would have done with any other prototypes; and once they have
\* run, the same commits in a request that differs in the prototypes alone
\* return false and leave the two files as they are.
C27_IncludesAndPrototypesOnlyWhereEmbedded ==
    [][(pc = "commit" /\ gens[idx].kind \in {"RExports", "CppInclude"}) =>
          LET g == gens[idx]
              threw == (gens'[idx].committed = "threw")
          IN  \A inc \in IncludeChoices, p \in CommitPrototypes :
                 (g.kind = "CppInclude" => inc = req.includes) =>
                    LET other == GeneratorCommit(g, inc, p, fs, includeDir, threw)
                        again == GeneratorCommit(ConstructedAgain(g, fs'), inc, p,
                                                 fs', includeDir', FALSE)
                    IN  /\ fs' = other.files
                        /\ gens'[idx].committed = other.did
                        /\ gens'[idx].ret = other.ret
                        /\ ~threw => (again.files = fs' /\ ~again.ret)]_vars

\* the three files were written with includes and prototypes: the manifest
\* holds the prototype, the wrapper script and the forwarding header do not,
\* and the wrapper script holds no include line either
C27_Witness ==
    /\ pc = "done"
    /\ prototypes # <<>>
    /\ req.includes # <<>>
    /\ \A i \in 1..Len(gens) : gens[i].committed = "wrote"
    /\ Contains(fs[CppTarget].text, prototypes[1])
    /\ ~Contains(fs[RTarget].text, prototypes[1])
    /\ ~Contains(fs[RTarget].text, req.includes[1])
    /\ ~Contains(fs[IncludeTarget].text, prototypes[1])
    /\ Contains(fs[IncludeTarget].text, req.includes[1])

=============================================================================
